---- MODULE Spec2Model ----
(***************************************************************************)
(* Model of package httpSwagger's configuration builder                   *)
(* (swagger_config.go): the Config record, the option constructors, each  *)
(* returning a closure func(c *Config), and newConfig, which starts from  *)
(* the default record, invokes the closures in order and backfills        *)
(* InstanceName.                                                          *)
(*                                                                         *)
(* Go values are modelled as follows.                                      *)
(*  - string, bool, int: TLA+ strings, booleans, integers;                 *)
(*  - template.JS: a string of a distinct named type, [js |-> s];          *)
(*  - []string: a slice is a reference to a backing array.  strs is the    *)
(*    heap of []string arrays, a slice is an address into it, 0 is the nil *)
(*    slice.  Every slice of the model spans its whole array;              *)
(*  - map[string]string: smaps is the heap of the caller's maps, 0 is the  *)
(*    nil map; a map is a set of <<key, value>> pairs with unique keys;    *)
(*  - []URLsConfig, []template.JS, map[template.JS]template.JS: the arrays *)
(*    and maps behind Config.URLs, Config.Plugins and Config.UIConfig are  *)
(*    allocated inside the closures (append to a slice only the record     *)
(*    holds, make) and nothing else ever holds a reference to them, so     *)
(*    they are modelled by their content, with a nil flag;                 *)
(*  - a closure func(c *Config): a record of the constructor's name (kind) *)
(*    and the arguments it captured; kind "nil" is the nil function value. *)
(***************************************************************************)
EXTENDS Integers, Sequences, FiniteSets, TLC

VARIABLES
    calls,      \* the argument lists of the caller's newConfig calls, in order
    cur,        \* how many newConfig calls have been entered
    pc,         \* "idle" (caller's code), "loop" (newConfig line 210), "panic"
    configFns,  \* newConfig's parameter
    i,          \* position of the range loop of line 210 in configFns
    config,     \* newConfig's local variable
    applied,    \* history: the closures invoked by the running call so far
    returned,   \* the records the calls returned (targets of the results), in order
    strs,       \* heap of []string backing arrays
    smaps       \* heap of map[string]string objects

vars == <<calls, cur, pc, configFns, i, config, applied, returned, strs, smaps>>

\* Longest argument list of a newConfig call.
MaxOpts == 2

-----------------------------------------------------------------------------
(* Types of the package *)

\* template.JS(s): conversion of a string to the named string type
\* template.JS; the bytes are kept, the type changes.
JS(s) == [js |-> s]

\* type URLsConfig struct { URL, Name string }
URLsConfig(url, name) == [URL |-> url, Name |-> name]

\* A nil slice or map held by content, and a non-nil one.
NilColl == [isNil |-> TRUE, elems |-> <<>>]
NilMap == [isNil |-> TRUE, elems |-> {}]
Made(e) == [isNil |-> FALSE, elems |-> e]

\* The elements of the []string slice at address a of heap h.
Deref(h, a) == IF a = 0 THEN <<>> ELSE h[a]

\* The pairs of the map[string]string at address a of heap h.
DerefMap(h, a) == IF a = 0 THEN {} ELSE h[a]

\* The zero value of Config (what config holds before line 192 runs).
ZeroConfig ==
    [URL |-> "", URLs |-> NilColl, DocExpansion |-> "", DeepLinking |-> FALSE,
     DomID |-> "", PersistAuthorization |-> FALSE, DisplayOperationID |-> FALSE,
     DefaultModelsExpandDepth |-> 0, DefaultModelExpandDepth |-> 0,
     DefaultModelRendering |-> "", DisplayRequestDuration |-> FALSE,
     ShowExtensions |-> FALSE, ShowCommonExtensions |-> FALSE,
     SupportedSubmitMethods |-> 0, TryItOutEnabled |-> FALSE,
     InstanceName |-> "", BeforeScript |-> JS(""), AfterScript |-> JS(""),
     Plugins |-> NilColl, UIConfig |-> NilMap]

\* swag.Name, the process-wide default instance name.
swagName == "swagger"

-----------------------------------------------------------------------------
(* The option constructors.  Op(args, c, ...) is the record that the       *)
(* closure returned by Op(args) leaves in *c when it is invoked on c.      *)

\* Faulty variant: setting the primary URL also drops the named URLs.
URLClearsURLs(url, c) == [c EXCEPT !.URL = url, !.URLs = NilColl]

URL(url, c) == [c EXCEPT !.URL = url]

\* Faulty variant: a pair already in the list is not added again.
URLsDedup(url, name, c) ==
    IF \E n \in 1..Len(c.URLs.elems) : c.URLs.elems[n] = URLsConfig(url, name)
    THEN c
    ELSE [c EXCEPT !.URLs = Made(Append(c.URLs.elems, URLsConfig(url, name)))]

URLs(url, name, c) ==
    [c EXCEPT !.URLs = Made(Append(c.URLs.elems, URLsConfig(url, name)))]

DeepLinking(deepLinking, c) == [c EXCEPT !.DeepLinking = deepLinking]

DocExpansion(docExpansion, c) == [c EXCEPT !.DocExpansion = docExpansion]

\* Faulty variant: the assignment copied from DocExpansion, field unchanged.
DomIDWritesDocExpansion(domID, c) == [c EXCEPT !.DocExpansion = domID]

DomID(domID, c) == [c EXCEPT !.DomID = domID]

InstanceName(name, c) == [c EXCEPT !.InstanceName = name]

PersistAuthorization(persistAuthorization, c) ==
    [c EXCEPT !.PersistAuthorization = persistAuthorization]

DisplayOperationID(displayOperationID, c) ==
    [c EXCEPT !.DisplayOperationID = displayOperationID]

DefaultModelsExpandDepth(defaultModelsExpandDepth, c) ==
    [c EXCEPT !.DefaultModelsExpandDepth = defaultModelsExpandDepth]

DefaultModelExpandDepth(defaultModelExpandDepth, c) ==
    [c EXCEPT !.DefaultModelExpandDepth = defaultModelExpandDepth]

DefaultModelRendering(defaultModelRendering, c) ==
    [c EXCEPT !.DefaultModelRendering = defaultModelRendering]

\* Faulty variant: showing the duration also switches Try-It-Out on.
DisplayRequestDurationTryItOut(displayRequestDuration, c) ==
    [c EXCEPT !.DisplayRequestDuration = displayRequestDuration,
              !.TryItOutEnabled = displayRequestDuration]

DisplayRequestDuration(displayRequestDuration, c) ==
    [c EXCEPT !.DisplayRequestDuration = displayRequestDuration]

ShowExtensions(showExtensions, c) == [c EXCEPT !.ShowExtensions = showExtensions]

ShowCommonExtensions(showCommonExtensions, c) ==
    [c EXCEPT !.ShowCommonExtensions = showCommonExtensions]

\* The variadic parameter is a slice: the address of the array the call
\* site built for SupportedSubmitMethods("a", "b"), the caller's own slice
\* for SupportedSubmitMethods(m...), nil for SupportedSubmitMethods().
\* The closure stores that slice, not a copy of its elements.
SupportedSubmitMethods(supportedSubmitMethods, c) ==
    [c EXCEPT !.SupportedSubmitMethods = supportedSubmitMethods]

\* Faulty variant: the converted elements are appended to c.Plugins.
PluginsAppend(plugins, c, h) ==
    LET src == Deref(h, plugins)
        vs == [k \in 1..Len(src) |-> JS(src[k])]
    IN [c EXCEPT !.Plugins = Made(c.Plugins.elems \o vs)]

\* make([]template.JS, len(plugins)) and the conversion of each element,
\* read from the caller's slice when the closure is invoked.
Plugins(plugins, c, h) ==
    LET src == Deref(h, plugins)
        vs == [k \in 1..Len(src) |-> JS(src[k])]
    IN [c EXCEPT !.Plugins = Made(vs)]

\* make(map[template.JS]template.JS, len(props)) and the conversion of each
\* key and value, read from the caller's map when the closure is invoked.
UIConfig(props, c, mh) ==
    LET vs == {<<JS(p[1]), JS(p[2])>> : p \in DerefMap(mh, props)}
    IN [c EXCEPT !.UIConfig = Made(vs)]

\* Faulty variant: the script is added to the one already set (+=).
BeforeScriptAccumulates(js, c) ==
    [c EXCEPT !.BeforeScript = JS(c.BeforeScript.js \o js)]

BeforeScript(js, c) == [c EXCEPT !.BeforeScript = JS(js)]

AfterScript(js, c) == [c EXCEPT !.AfterScript = JS(js)]

-----------------------------------------------------------------------------
(* Closures as values *)

\* A closure: kind names the constructor, s/t/b/n/ref are the captured
\* arguments (those the constructor does not take hold a filler).
Fn(kind, s, t, b, n, ref) ==
    [kind |-> kind, s |-> s, t |-> t, b |-> b, n |-> n, ref |-> ref]

StrFn(kind, s) == Fn(kind, s, "", FALSE, 0, 0)
BoolFn(kind, b) == Fn(kind, "", "", b, 0, 0)
IntFn(kind, n) == Fn(kind, "", "", FALSE, n, 0)
RefFn(kind, ref) == Fn(kind, "", "", FALSE, 0, ref)

\* The nil value of type func(c *Config).
NilFn == StrFn("nil", "")

\* fn(&config) of line 211 for a non-nil fn: the record the call leaves in
\* config, given the heaps the closure reads.
Invoke(fn, c, h, mh) ==
    CASE fn.kind = "URL" -> URL(fn.s, c)
      [] fn.kind = "URLs" -> URLs(fn.s, fn.t, c)
      [] fn.kind = "DeepLinking" -> DeepLinking(fn.b, c)
      [] fn.kind = "DocExpansion" -> DocExpansion(fn.s, c)
      [] fn.kind = "DomID" -> DomID(fn.s, c)
      [] fn.kind = "InstanceName" -> InstanceName(fn.s, c)
      [] fn.kind = "PersistAuthorization" -> PersistAuthorization(fn.b, c)
      [] fn.kind = "DisplayOperationID" -> DisplayOperationID(fn.b, c)
      [] fn.kind = "DefaultModelsExpandDepth" -> DefaultModelsExpandDepth(fn.n, c)
      [] fn.kind = "DefaultModelExpandDepth" -> DefaultModelExpandDepth(fn.n, c)
      [] fn.kind = "DefaultModelRendering" -> DefaultModelRendering(fn.s, c)
      [] fn.kind = "DisplayRequestDuration" -> DisplayRequestDuration(fn.b, c)
      [] fn.kind = "ShowExtensions" -> ShowExtensions(fn.b, c)
      [] fn.kind = "ShowCommonExtensions" -> ShowCommonExtensions(fn.b, c)
      [] fn.kind = "SupportedSubmitMethods" -> SupportedSubmitMethods(fn.ref, c)
      [] fn.kind = "Plugins" -> Plugins(fn.ref, c, h)
      [] fn.kind = "UIConfig" -> UIConfig(fn.ref, c, mh)
      [] fn.kind = "BeforeScript" -> BeforeScript(fn.s, c)
      [] fn.kind = "AfterScript" -> AfterScript(fn.s, c)

-----------------------------------------------------------------------------
(* newConfig *)

\* Faulty variant: the order the comment of line 147 gives.
DefaultMethodsAsCommented ==
    <<"get", "post", "put", "delete", "options", "head", "patch", "trace">>

\* The array of the slice literal of line 206.
DefaultMethods ==
    <<"get", "put", "post", "delete", "options", "head", "patch", "trace">>

\* The composite literal of lines 192-208; methods is the address of the
\* array freshly allocated for the literal of line 206.  The fields the
\* literal does not name hold their zero values.
DefaultConfig(methods) ==
    [ZeroConfig EXCEPT
        !.URL = "doc.json",
        !.URLs = NilColl,
        !.DocExpansion = "list",
        !.DomID = "swagger-ui",
        !.DeepLinking = TRUE,
        !.PersistAuthorization = FALSE,
        !.DisplayOperationID = FALSE,
        !.DefaultModelsExpandDepth = 1,
        !.DefaultModelExpandDepth = 1,
        !.DefaultModelRendering = "example",
        !.DisplayRequestDuration = FALSE,
        !.ShowExtensions = FALSE,
        !.ShowCommonExtensions = FALSE,
        !.SupportedSubmitMethods = methods,
        !.TryItOutEnabled = FALSE]

\* Faulty variant: no backfill.
BackfillNever(c) == c

\* Lines 214-216.
Backfill(c) ==
    IF c.InstanceName = "" THEN [c EXCEPT !.InstanceName = swagName] ELSE c

\* Faulty variant: the loop stops one element early.
LoopDoneEarly(k, fns) == k >= Len(fns)

\* The range loop of line 210 has visited every element.
LoopDone(k, fns) == k > Len(fns)

-----------------------------------------------------------------------------
(* The caller's objects and the argument lists it may pass *)

\* Addresses in strs of the caller's []string objects.
MethodsAddr == 1    \* m := []string{"post", "get"}, passed as m...
LiteralAddr == 2    \* the array built for SupportedSubmitMethods("head")
PluginsAddr == 3    \* p := []string{"p1", "p2"}, passed to Plugins(p)
\* Address in smaps of the caller's props := map[string]string{"x": "1"}.
PropsAddr == 1

CallerStrs == << <<"post", "get">>, <<"head">>, <<"p1", "p2">> >>
CallerMaps == << {<<"x", "1">>} >>

BoolKinds ==
    {"DeepLinking", "PersistAuthorization", "DisplayOperationID",
     "DisplayRequestDuration", "ShowExtensions", "ShowCommonExtensions"}
StrKinds ==
    {"URL", "DocExpansion", "DomID", "DefaultModelRendering",
     "BeforeScript", "AfterScript"}
IntKinds == {"DefaultModelsExpandDepth", "DefaultModelExpandDepth"}

\* Argument values: for each string option a valid and an unchecked value.
StrArgs(kind) ==
    CASE kind = "URL" -> {"custom.yaml", ""}
      [] kind = "DocExpansion" -> {"full", "bogus"}
      [] kind = "DomID" -> {"my-ui", ""}
      [] kind = "DefaultModelRendering" -> {"model", "bogus"}
      [] kind = "BeforeScript" -> {"before()", "b2()"}
      [] kind = "AfterScript" -> {"after()", "a2()"}

\* The closures the caller builds with the package's constructors.
PackageFns ==
    {StrFn(k, s) : k \in {"URL"}, s \in StrArgs("URL")}
    \cup UNION {{StrFn(k, s) : s \in StrArgs(k)} : k \in StrKinds}
    \cup {BoolFn(k, b) : k \in BoolKinds, b \in BOOLEAN}
    \cup {IntFn(k, n) : k \in IntKinds, n \in {-1, 2}}
    \cup {StrFn("InstanceName", s) : s \in {"", "x", "y"}}
    \cup {Fn("URLs", "a.json", "A", FALSE, 0, 0), Fn("URLs", "b.json", "B", FALSE, 0, 0)}
    \cup {RefFn("SupportedSubmitMethods", a) : a \in {0, MethodsAddr, LiteralAddr}}
    \cup {RefFn("Plugins", a) : a \in {0, PluginsAddr}}
    \cup {RefFn("UIConfig", a) : a \in {0, PropsAddr}}

\* Every value of type func(c *Config) the model draws from.
AllFns == PackageFns \cup {NilFn}

\* The argument lists of at most MaxOpts elements of S.
ArgLists(S) == UNION {[1..n -> S] : n \in 0..MaxOpts}

-----------------------------------------------------------------------------
(* The state machine *)

InitWith(cs) ==
    /\ calls = cs
    /\ cur = 0
    /\ pc = "idle"
    /\ configFns = <<>>
    /\ i = 0
    /\ config = ZeroConfig
    /\ applied = <<>>
    /\ returned = <<>>
    /\ strs = CallerStrs
    /\ smaps = CallerMaps

\* One newConfig call with any argument list.
Init == \E fns \in ArgLists(AllFns) : InitWith(<<fns>>)

\* The caller calls newConfig(calls[cur+1]...): lines 191-208.
Call ==
    /\ pc = "idle"
    /\ cur < Len(calls)
    /\ cur' = cur + 1
    /\ configFns' = calls[cur + 1]
    /\ strs' = Append(strs, DefaultMethods)
    /\ config' = DefaultConfig(Len(strs) + 1)
    /\ i' = 1
    /\ applied' = <<>>
    /\ pc' = "loop"
    /\ UNCHANGED <<calls, returned, smaps>>

\* One iteration of the loop of lines 210-212 on a non-nil closure.
ApplyOption ==
    /\ pc = "loop"
    /\ ~LoopDone(i, configFns)
    /\ configFns[i] # NilFn
    /\ config' = Invoke(configFns[i], config, strs, smaps)
    /\ applied' = Append(applied, configFns[i])
    /\ i' = i + 1
    /\ UNCHANGED <<calls, cur, pc, configFns, returned, strs, smaps>>

\* Line 211 on a nil closure: the call of a nil function value panics
\* (nil pointer dereference); newConfig has no recover.
NilOptionPanic ==
    /\ pc = "loop"
    /\ ~LoopDone(i, configFns)
    /\ configFns[i] = NilFn
    /\ pc' = "panic"
    /\ UNCHANGED <<calls, cur, configFns, i, config, applied, returned, strs, smaps>>

\* Lines 214-218: the backfill and the return of &config.
Finish ==
    /\ pc = "loop"
    /\ LoopDone(i, configFns)
    /\ returned' = Append(returned, Backfill(config))
    /\ pc' = "idle"
    /\ UNCHANGED <<calls, cur, configFns, i, config, applied, strs, smaps>>

Next == Call \/ ApplyOption \/ NilOptionPanic \/ Finish

Spec == Init /\ [][Next]_vars

-----------------------------------------------------------------------------
(* Two calls whose argument lists differ by one adjacent transposition *)

\* fns with the elements at positions k and k+1 exchanged.
SwapAt(fns, k) ==
    [j \in 1..Len(fns) |-> IF j = k THEN fns[k + 1]
                           ELSE IF j = k + 1 THEN fns[k] ELSE fns[j]]

InitSwap ==
    \E fns \in ArgLists(AllFns) : \E k \in 1..MaxOpts :
        /\ k < Len(fns)
        /\ InitWith(<<fns, SwapAt(fns, k)>>)

SpecSwap == InitSwap /\ [][Next]_vars

-----------------------------------------------------------------------------
(* Two calls passing the same closures, and a caller that keeps using the  *)
(* slices and the map it passed.  newConfig is synchronous, so the caller's *)
(* own statements run only while no call is in progress.                   *)

\* The closures that capture a reference, one that does not, and nil.
ShareFns ==
    {fn \in PackageFns : fn.kind \in {"SupportedSubmitMethods", "Plugins", "UIConfig"}}
    \cup {StrFn("InstanceName", "x"), NilFn}

InitShare == \E fns \in ArgLists(ShareFns) : InitWith(<<fns, fns>>)

\* m[0] = "evil" or p[0] = "evil" in the caller's code.
CallerWriteSlice ==
    /\ pc = "idle"
    /\ \E a \in {MethodsAddr, PluginsAddr} :
        /\ strs[a][1] # "evil"
        /\ strs' = [strs EXCEPT ![a][1] = "evil"]
    /\ UNCHANGED <<calls, cur, pc, configFns, i, config, applied, returned, smaps>>

\* props["x"] = "2" in the caller's code.
CallerWriteMap ==
    /\ pc = "idle"
    /\ <<"x", "2">> \notin smaps[PropsAddr]
    /\ smaps' = [smaps EXCEPT ![PropsAddr] =
                    {p \in @ : p[1] # "x"} \cup {<<"x", "2">>}]
    /\ UNCHANGED <<calls, cur, pc, configFns, i, config, applied, returned, strs>>

NextShare == Next \/ CallerWriteSlice \/ CallerWriteMap

SpecShare == InitShare /\ [][NextShare]_vars

-----------------------------------------------------------------------------
(* What the claims are stated in *)

\* What a reader of the record r sees under heap h: every collection by its
\* elements.
View(r, h) ==
    [r EXCEPT !.SupportedSubmitMethods = Deref(h, @),
              !.URLs = @.elems, !.Plugins = @.elems, !.UIConfig = @.elems]

\* The documented default record (the table of defaults of the
\* specification), as a reader sees it.
Documented ==
    [URL |-> "doc.json", URLs |-> <<>>, DocExpansion |-> "list",
     DomID |-> "swagger-ui", DeepLinking |-> TRUE,
     PersistAuthorization |-> FALSE, DisplayOperationID |-> FALSE,
     DefaultModelsExpandDepth |-> 1, DefaultModelExpandDepth |-> 1,
     DefaultModelRendering |-> "example", DisplayRequestDuration |-> FALSE,
     ShowExtensions |-> FALSE, ShowCommonExtensions |-> FALSE,
     SupportedSubmitMethods |->
        <<"get", "put", "post", "delete", "options", "head", "patch", "trace">>,
     TryItOutEnabled |-> FALSE, InstanceName |-> "swagger",
     BeforeScript |-> [js |-> ""], AfterScript |-> [js |-> ""],
     Plugins |-> <<>>, UIConfig |-> {}]

\* The overwrite-type options; each writes the field of its own name.
OverwriteKinds ==
    {"URL", "DeepLinking", "DocExpansion", "DomID", "PersistAuthorization",
     "DisplayOperationID", "DefaultModelsExpandDepth", "DefaultModelExpandDepth",
     "DefaultModelRendering", "DisplayRequestDuration", "ShowExtensions",
     "ShowCommonExtensions", "BeforeScript", "AfterScript"}

\* Every field of Config.
Fields == DOMAIN Documented

\* Position of the last closure of the given kind in fns, 0 if there is none.
LastIdx(fns, kind) ==
    LET S == {k \in 1..Len(fns) : fns[k].kind = kind}
    IN IF S = {} THEN 0 ELSE CHOOSE k \in S : \A j \in S : j <= k

\* The argument of an overwrite-type closure, in the type of its field.
ArgOf(fn) ==
    CASE fn.kind \in BoolKinds -> fn.b
      [] fn.kind \in IntKinds -> fn.n
      [] fn.kind \in {"BeforeScript", "AfterScript"} -> [js |-> fn.s]
      [] OTHER -> fn.s

\* The calls that have returned.
Returned == 1..Len(returned)

C2_LastWriteWins ==
    \A k \in Returned : \A kind \in OverwriteKinds :
        LET last == LastIdx(calls[k], kind)
        IN returned[k][kind] =
              IF last = 0 THEN Documented[kind] ELSE ArgOf(calls[k][last])

\* The same option twice with different values, the second not the default.
C2_Witness ==
    /\ Len(returned) = 1
    /\ calls[1] = <<StrFn("URL", ""), StrFn("URL", "custom.yaml")>>
    /\ returned[1].URL = "custom.yaml"

\* C3: the URLs list of the returned record has one entry per occurrence of
\* the URLs option, entry n being the (url, name) pair of the n-th
\* occurrence in call order, equal pairs included.
C3_URLsAppendInOrder ==
    \A k \in Returned :
        LET occ == SelectSeq(calls[k], LAMBDA fn : fn.kind = "URLs")
            got == returned[k].URLs.elems
        IN /\ Len(got) = Len(occ)
           /\ \A n \in 1..Len(occ) :
                got[n].URL = occ[n].s /\ got[n].Name = occ[n].t

C3_Witness ==
    /\ Len(returned) = 1
    /\ Len(SelectSeq(calls[1], LAMBDA fn : fn.kind = "URLs")) = 2
    /\ calls[1][1] # calls[1][2]

\* C4: for SupportedSubmitMethods, Plugins and UIConfig the field of the
\* returned record holds exactly the elements of the argument of the last
\* call of the option (same length and order, same keys and values), and
\* nothing of the default list or of earlier calls.
C4_ReplaceWholeCollection ==
    \A k \in Returned :
        LET m == LastIdx(calls[k], "SupportedSubmitMethods")
            p == LastIdx(calls[k], "Plugins")
            u == LastIdx(calls[k], "UIConfig")
            r == returned[k]
        IN /\ m # 0 =>
                Deref(strs, r.SupportedSubmitMethods) = Deref(CallerStrs, calls[k][m].ref)
           /\ p # 0 =>
                LET arg == Deref(CallerStrs, calls[k][p].ref)
                IN /\ Len(r.Plugins.elems) = Len(arg)
                   /\ \A n \in 1..Len(arg) : r.Plugins.elems[n].js = arg[n]
           /\ u # 0 =>
                LET arg == DerefMap(CallerMaps, calls[k][u].ref)
                IN /\ Cardinality(r.UIConfig.elems) = Cardinality(arg)
                   /\ \A e \in arg : <<[js |-> e[1]], [js |-> e[2]]>> \in r.UIConfig.elems

\* SupportedSubmitMethods("head") and UIConfig({"x": "1"}).
C4_Witness ==
    /\ Len(returned) = 1
    /\ calls[1] = <<RefFn("SupportedSubmitMethods", LiteralAddr),
                    RefFn("UIConfig", PropsAddr)>>
    /\ Deref(strs, returned[1].SupportedSubmitMethods) = <<"head">>
    /\ returned[1].UIConfig.elems = {<<[js |-> "x"], [js |-> "1"]>>}

\* C5: the InstanceName of the returned record is never empty: it is the
\* process-wide default name if the option is never called or the value in
\* effect after all options is empty, and the last value otherwise.
C5_InstanceNameBackfill ==
    \A k \in Returned :
        LET last == LastIdx(calls[k], "InstanceName")
            r == returned[k]
        IN /\ r.InstanceName # ""
           /\ (last = 0 \/ calls[k][last].s = "") => r.InstanceName = "swagger"
           /\ (last # 0 /\ calls[k][last].s # "") => r.InstanceName = calls[k][last].s

C5_Witness ==
    /\ Len(returned) = 1
    /\ calls[1] = <<StrFn("InstanceName", "x"), StrFn("InstanceName", "")>>

\* C6 as stated: once newConfig has returned, no later step changes what the
\* returned record holds, and no two returned records hold the same array.
C6_ReturnedRecordsPrivate ==
    [][/\ \A k \in Returned : View(returned[k], strs)' = View(returned[k], strs)
       /\ \A k \in Returned : \A j \in Returned :
            (k # j /\ returned[k].SupportedSubmitMethods # 0) =>
                returned[k].SupportedSubmitMethods # returned[j].SupportedSubmitMethods
      ]_vars

\* C7 as stated: for every argument list the type admits, no call is
\* aborted and every call returns after invoking each closure once.
C7_TotalForAnyClosure ==
    /\ pc # "panic"
    /\ (pc = "idle" /\ cur > 0) => applied = configFns

\* C7 amended: a call is aborted only by a nil closure, at that closure and
\* after invoking the ones before it; a call whose closures all come from
\* the package's constructors is never stuck, returns, and has then invoked
\* each closure once, in order; unchecked argument values (unknown mode
\* strings, negative depths, empty strings) are stored as given.
C7_TotalForPackageOptions ==
    /\ pc = "panic" =>
        /\ i \in 1..Len(configFns)
        /\ configFns[i] = NilFn
        /\ applied = SubSeq(configFns, 1, i - 1)
    /\ (\A n \in 1..Len(configFns) : configFns[n] \in PackageFns) =>
        /\ pc # "panic"
        /\ pc = "loop" => ENABLED Next
    /\ (pc = "idle" /\ cur > 0) =>
        /\ Len(returned) = cur
        /\ applied = configFns
        /\ \A kind \in {"URL", "DocExpansion", "DefaultModelRendering",
                        "DefaultModelsExpandDepth", "DefaultModelExpandDepth"} :
            LET last == LastIdx(configFns, kind)
            IN last # 0 => returned[cur][kind] = ArgOf(configFns[last])

\* A returned call that was given an unknown mode and a negative depth.
C7_Witness ==
    /\ Len(returned) = 1
    /\ calls[1] = <<StrFn("DocExpansion", "bogus"), IntFn("DefaultModelsExpandDepth", -1)>>
    /\ applied = calls[1]
    /\ returned[1].DocExpansion = "bogus"
    /\ returned[1].DefaultModelsExpandDepth = -1

\* C8: a field for which no option occurs in the sequence has its documented
\* default in the returned record (InstanceName: the process-wide default
\* name, written by the post-processing step).
C8_UntouchedFieldsDefault ==
    \A k \in Returned : \A f \in Fields :
        (\A n \in 1..Len(calls[k]) : calls[k][n].kind # f) =>
            View(returned[k], strs)[f] = Documented[f]

\* [URL("custom.yaml"), DeepLinking(false)].
C8_Witness ==
    /\ Len(returned) = 1
    /\ calls[1] = <<StrFn("URL", "custom.yaml"), BoolFn("DeepLinking", FALSE)>>
    /\ returned[1].URL = "custom.yaml"
    /\ ~returned[1].DeepLinking

\* C9: no option of the package writes TryItOutEnabled: it is false in the
\* record under construction and in every returned record.
C9_TryItOutNeverEnabled ==
    /\ pc = "loop" => ~config.TryItOutEnabled
    /\ \A k \in Returned : ~returned[k].TryItOutEnabled

C9_Witness ==
    /\ Len(returned) = 1
    /\ Len(calls[1]) = MaxOpts
    /\ calls[1][1].kind = "DisplayRequestDuration" /\ calls[1][1].b

\* C10: two argument lists that differ by exchanging two adjacent options
\* give equal records if the two options write different fields, and
\* different records if both are URLs options with different pairs.
C10_DifferentFieldsCommute ==
    Len(returned) = 2 =>
        \A k \in 1..(Len(calls[1]) - 1) :
            calls[2] = SwapAt(calls[1], k) =>
                LET a == calls[1][k]
                    b == calls[1][k + 1]
                    same == View(returned[1], strs) = View(returned[2], strs)
                IN /\ a.kind # b.kind => same
                   /\ (a.kind = "URLs" /\ b.kind = "URLs" /\ a # b) => ~same

C10_Witness ==
    /\ Len(returned) = 2
    /\ calls[1] = <<RefFn("SupportedSubmitMethods", 0), StrFn("InstanceName", "x")>>
    /\ calls[2] = <<StrFn("InstanceName", "x"), RefFn("SupportedSubmitMethods", 0)>>

====
